---------------------------- MODULE Spec2Model ----------------------------
(***************************************************************************)
(* The stage-0 bootstrap headers of the toolchain                          *)
(* (toolchain/src/bootstrap-include: assert.h, stdlib.h, stdio.h,          *)
(* string.h), modelled as the behaviour of a program that uses them.       *)
(*                                                                         *)
(* A behaviour is one build configuration (DEBUG defined or not, fixed     *)
(* for the whole build) and one program: a sequence of statements, each a  *)
(* use of one shim operation.  The model explores every program by         *)
(* choosing the next statement at each step.  pc counts the statements     *)
(* done so far, op records the statement just done.  The program has one   *)
(* int variable x, which the asserted expressions read and (the            *)
(* side-effecting ones) increment.                                         *)
(***************************************************************************)
EXTENDS Integers, Sequences, FiniteSets

VARIABLES
    DEBUG,          \* the build configuration: TRUE iff DEBUG is defined
    pc,             \* number of statements executed (or rejected) so far
    op,             \* the statement just processed, see Op
    x,              \* the program's int variable
    evals,          \* how many times an asserted/argument expression was evaluated
    fprintf_calls,  \* the calls made to fprintf, in order, with their arguments
    derefs,         \* the destination handles fprintf dereferenced
    trapped,        \* the process was terminated by __builtin_trap
    compile_error   \* a statement of the program did not compile

vars == <<DEBUG, pc, op, x, evals, fprintf_calls, derefs, trapped, compile_error>>

\* Bounds of the exploration.
MaxSteps == 4       \* statements per program
MaxC == 2           \* the constant an expression compares x with is in 0..MaxC
MaxWritten == 2     \* fprintf returns -1 (error) or a count in 0..MaxWritten

-----------------------------------------------------------------------------
\* Expressions handed to the macros.
\*   "lt"         x < c      (no side effect)
\*   "postinc_lt" x++ < c    (side effect: x is incremented)
\* typed = FALSE is an argument that is not a valid expression.
Exprs == [kind : {"lt", "postinc_lt"}, c : 0..MaxC, typed : BOOLEAN]

NoExpr == [kind |-> "none", c |-> 0, typed |-> TRUE]

\* One evaluation of E in memory m: its value and the memory afterwards.
Eval(E, m) ==
    [val |-> m < E.c,
     mem |-> IF E.kind = "postinc_lt" THEN m + 1 ELSE m]

\* stddef.h's null pointer constant, and stdio.h's stderr.
NULL == 0

stderr_nonnull == NULL + 1

stderr == NULL

\* What fprintf may return: a negative value on error, else the number of
\* characters written.  fprintf is only declared here; its value is an input.
FprintfReturns == (-1)..MaxWritten

\* The handles a call fprintf(f, ...) dereferences.  The definition of
\* fprintf is not part of the headers; this is the contract stated for it:
\* the null destination is accepted and not dereferenced.
fprintf_deref(f) == IF f = NULL THEN {} ELSE {f}

\* The translation unit the program's statements are in (__FILE__).
FILE == "bootstrap.c"

\* The record of a processed statement.
\*   val   "true"/"false": the value the expression evaluated to;
\*         "unevaluated": the expression was not evaluated
\*   wrote the statement called fprintf, ret is what fprintf returned
Op(name, E, val, wrote, ret) ==
    [name |-> name, expr |-> E, val |-> val, wrote |-> wrote, ret |-> ret]

BoolStr(b) == IF b THEN "true" ELSE "false"

-----------------------------------------------------------------------------
\* stdlib.h: _Noreturn static inline void abort(void) { __builtin_trap(); }
builtin_trap == trapped' = TRUE

abort_returns == trapped' = trapped

abort == builtin_trap

\* assert.h, #ifdef DEBUG:
\*   ((void)(!(x) && fprintf(stderr, "assertion failed: " #x " at %s:%d",
\*                           __FILE__, __LINE__) && (abort(), 1)))
\* E is evaluated once by !(x); && short-circuits: fprintf is called only
\* when E is false, and (abort(), 1) only when fprintf returned non-zero.
\* #x is the text of E, not an evaluation of it.  r is fprintf's return.
assert_debug_reevaluates(E, r) ==
    LET e == Eval(E, x)
        e2 == Eval(E, e.mem)
    IN  IF e.val
        THEN /\ x' = e.mem
             /\ evals' = evals + 1
             /\ op' = Op("assert", E, "true", FALSE, 0)
             /\ UNCHANGED <<fprintf_calls, derefs, trapped>>
        ELSE /\ x' = e2.mem
             /\ evals' = evals + 2
             /\ op' = Op("assert", E, "false", TRUE, r)
             /\ fprintf_calls' = Append(fprintf_calls,
                    [f |-> stderr, expr |-> E, file |-> FILE, line |-> pc + 1])
             /\ derefs' = derefs \cup fprintf_deref(stderr)
             /\ IF r # 0 THEN abort ELSE UNCHANGED trapped

assert_debug(E, r) ==
    LET e == Eval(E, x)
    IN  /\ x' = e.mem
        /\ evals' = evals + 1
        /\ IF e.val
           THEN /\ op' = Op("assert", E, "true", FALSE, 0)
                /\ UNCHANGED <<fprintf_calls, derefs, trapped>>
           ELSE /\ op' = Op("assert", E, "false", TRUE, r)
                /\ fprintf_calls' = Append(fprintf_calls,
                       [f |-> stderr, expr |-> E, file |-> FILE, line |-> pc + 1])
                /\ derefs' = derefs \cup fprintf_deref(stderr)
                /\ IF r # 0 THEN abort ELSE UNCHANGED trapped

\* assert.h, #else:  ((void)sizeof(x))
\* The operand of sizeof is not evaluated.
assert_release_evaluates(E) ==
    LET e == Eval(E, x)
    IN  /\ x' = e.mem
        /\ evals' = evals + 1
        /\ op' = Op("assert", E, BoolStr(e.val), FALSE, 0)
        /\ UNCHANGED <<fprintf_calls, derefs, trapped>>

assert_release_as_debug(E) ==
    LET e == Eval(E, x)
    IN  /\ x' = e.mem
        /\ evals' = evals + 1
        /\ op' = Op("assert", E, BoolStr(e.val), FALSE, 0)
        /\ UNCHANGED <<fprintf_calls, derefs>>
        /\ IF e.val THEN UNCHANGED trapped ELSE abort

assert_release(E) ==
    /\ op' = Op("assert", E, "unevaluated", FALSE, 0)
    /\ UNCHANGED <<x, evals, fprintf_calls, derefs, trapped>>

\* assert.h:  #define static_assert(...)
\* The arguments are dropped by the preprocessor: nothing is compiled.
static_assert_checked(E) ==
    /\ op' = Op("static_assert", E, "unevaluated", FALSE, 0)
    /\ compile_error' = (~E.typed \/ ~Eval(E, x).val)
    /\ UNCHANGED <<x, evals, fprintf_calls, derefs, trapped>>

static_assert(E) ==
    /\ op' = Op("static_assert", E, "unevaluated", FALSE, 0)
    /\ UNCHANGED <<x, evals, fprintf_calls, derefs, trapped, compile_error>>

\* stdio.h:  #define fflush(...)
fflush_evaluates(E) ==
    LET e == Eval(E, x)
    IN  /\ op' = Op("fflush", E, BoolStr(e.val), FALSE, 0)
        /\ x' = e.mem
        /\ evals' = evals + 1
        /\ UNCHANGED <<fprintf_calls, derefs, trapped, compile_error>>

fflush(E) ==
    /\ op' = Op("fflush", E, "unevaluated", FALSE, 0)
    /\ UNCHANGED <<x, evals, fprintf_calls, derefs, trapped, compile_error>>

\* string.h: for each declaration, whether each parameter, in order, is
\* qualified __restrict.
string_h ==
    [memcpy    |-> <<TRUE, TRUE, FALSE>>,
     memmove   |-> <<FALSE, FALSE, FALSE>>,
     strcpy    |-> <<TRUE, FALSE>>,
     strncpy   |-> <<TRUE, FALSE, FALSE>>,
     strcat    |-> <<TRUE, TRUE>>,
     strncat   |-> <<TRUE, TRUE, FALSE>>,
     memcmp    |-> <<FALSE, FALSE, FALSE>>,
     strcmp    |-> <<FALSE, FALSE>>,
     strcoll   |-> <<FALSE, FALSE>>,
     strncmp   |-> <<FALSE, FALSE, FALSE>>,
     strxfrm   |-> <<TRUE, TRUE, FALSE>>,
     memchr    |-> <<FALSE, FALSE, FALSE>>,
     strchr    |-> <<FALSE, FALSE>>,
     strcspn   |-> <<FALSE, FALSE>>,
     strpbrk   |-> <<FALSE, FALSE>>,
     strrchr   |-> <<FALSE, FALSE>>,
     strspn    |-> <<FALSE, FALSE>>,
     strstr    |-> <<FALSE, FALSE>>,
     strtok    |-> <<TRUE, TRUE>>,
     strchrnul |-> <<FALSE, FALSE>>,
     memset    |-> <<FALSE, FALSE, FALSE>>,
     strerror  |-> <<FALSE>>,
     strlen    |-> <<FALSE>>]

-----------------------------------------------------------------------------
Init ==
    /\ DEBUG \in BOOLEAN
    /\ pc = 0
    /\ op = Op("start", NoExpr, "unevaluated", FALSE, 0)
    /\ x = 0
    /\ evals = 0
    /\ fprintf_calls = <<>>
    /\ derefs = {}
    /\ trapped = FALSE
    /\ compile_error = FALSE

\* A statement is processed only while the program builds and the process
\* is alive.
Running == ~trapped /\ ~compile_error /\ pc < MaxSteps

\* assert(E) where E is not a valid expression: both expansions hand E to
\* the compiler (as the operand of ! or of sizeof), which rejects it.
AssertIllTyped(E) ==
    /\ Running
    /\ ~E.typed
    /\ pc' = pc + 1
    /\ op' = Op("assert", E, "unevaluated", FALSE, 0)
    /\ compile_error' = TRUE
    /\ UNCHANGED <<DEBUG, x, evals, fprintf_calls, derefs, trapped>>

AssertDebug(E, r) ==
    /\ Running
    /\ DEBUG
    /\ E.typed
    /\ pc' = pc + 1
    /\ assert_debug(E, r)
    /\ UNCHANGED <<DEBUG, compile_error>>

AssertRelease(E) ==
    /\ Running
    /\ ~DEBUG
    /\ E.typed
    /\ pc' = pc + 1
    /\ assert_release(E)
    /\ UNCHANGED <<DEBUG, compile_error>>

StaticAssert(E) ==
    /\ Running
    /\ pc' = pc + 1
    /\ static_assert(E)
    /\ UNCHANGED DEBUG

Fflush(E) ==
    /\ Running
    /\ pc' = pc + 1
    /\ fflush(E)
    /\ UNCHANGED DEBUG

\* A direct call of abort().
Abort ==
    /\ Running
    /\ pc' = pc + 1
    /\ op' = Op("abort", NoExpr, "unevaluated", FALSE, 0)
    /\ abort
    /\ UNCHANGED <<DEBUG, x, evals, fprintf_calls, derefs, compile_error>>

\* A call of a string.h function f, compiled against its declaration.  The
\* functions are defined outside the headers; the call is recorded only.
StringCall(f) ==
    /\ Running
    /\ pc' = pc + 1
    /\ op' = Op(f, NoExpr, "unevaluated", FALSE, 0)
    /\ UNCHANGED <<DEBUG, x, evals, fprintf_calls, derefs, trapped, compile_error>>

Next ==
    \/ \E E \in Exprs : AssertIllTyped(E)
    \/ \E E \in Exprs, r \in FprintfReturns : AssertDebug(E, r)
    \/ \E E \in Exprs : AssertRelease(E)
    \/ \E E \in Exprs : StaticAssert(E)
    \/ \E E \in Exprs : Fflush(E)
    \/ Abort
    \/ \E f \in DOMAIN string_h : StringCall(f)

Spec == Init /\ [][Next]_vars

-----------------------------------------------------------------------------
\* The step just taken processed a statement named n.
Did(n) == pc' # pc /\ op'.name = n

\* The expression of the statement just processed has no side effect.
Pure(E) == E.kind = "lt"

\* C1: in Debug configuration, for a side-effect-free expression E,
\* assert(E) aborts the process iff E evaluates to false, and when E is true
\* it has no observable effect (no diagnostic write, no abort, memory kept).
C1_DebugAssertAbortsIffFalse ==
    [][(DEBUG /\ Did("assert") /\ op'.expr.typed /\ Pure(op'.expr)) =>
          /\ trapped' <=> (op'.val = "false")
          /\ (op'.val = "true") =>
                UNCHANGED <<x, fprintf_calls, derefs, trapped>>]_vars

\* C2: in Debug configuration, whenever the expression of an assert is
\* false, the diagnostic write happens and the abort is then triggered, for
\* every value the write returns: nothing continues past a failing assert.
C2_FailingAssertAlwaysAborts ==
    (DEBUG /\ op.name = "assert" /\ op.val = "false") =>
        (op.wrote /\ Len(fprintf_calls) > 0 /\ trapped)

\* C3: in Release configuration assert(E) never evaluates E, whatever E is
\* and whatever value it would have: no side effect of E, no diagnostic, no
\* abort, and the program state after the assert is the state before it.
C3_ReleaseAssertIsNoOp ==
    [][(~DEBUG /\ Did("assert") /\ op'.expr.typed) =>
          /\ op'.val = "unevaluated"
          /\ UNCHANGED <<x, evals, fprintf_calls, derefs, trapped>>]_vars

\* A Release assert of a side-effecting expression that would have been
\* false was processed.
C3_Witness ==
    /\ ~DEBUG
    /\ op.name = "assert"
    /\ op.expr.typed
    /\ op.expr.kind = "postinc_lt"
    /\ ~Eval(op.expr, x).val
    /\ pc > 0

\* C4: in Debug configuration each assert(expr) evaluates expr exactly once,
\* whether it is true or false: a side effect of expr fires exactly one
\* time, also on the diagnostic path.
C4_DebugAssertEvaluatesOnce ==
    [][(DEBUG /\ Did("assert") /\ op'.expr.typed) =>
          /\ evals' = evals + 1
          /\ op'.val # "unevaluated"
          /\ x' = IF Pure(op'.expr) THEN x ELSE x + 1]_vars

\* A Debug assert of a side-effecting expression failed, wrote its
\* diagnostic, and the expression's side effect is visible once.
C4_Witness ==
    /\ DEBUG
    /\ op.name = "assert"
    /\ op.expr.kind = "postinc_lt"
    /\ op.val = "false"
    /\ op.wrote
    /\ evals = 1
    /\ x = 1

\* The step just taken called abort(): directly, or from a Debug assert
\* whose expression was false and whose diagnostic write returned non-zero.
AbortCalled ==
    \/ Did("abort")
    \/ DEBUG /\ Did("assert") /\ op'.val = "false" /\ op'.wrote /\ op'.ret # 0

\* C5: abort() never returns: once it is called the process is terminated
\* by a trap and no further program step is executed afterwards, in Debug
\* and in Release configuration alike.
C5_AbortNeverReturns ==
    [][/\ AbortCalled => trapped'
       /\ ~trapped]_vars

\* abort() was called directly in a Release build and the process is
\* terminated.
C5_Witness ==
    ~DEBUG /\ op.name = "abort" /\ trapped

\* C6: the process reaches the trap-terminated state only if abort is
\* called directly or the configuration is Debug and an executed assert had
\* a false expression; in Release configuration no assert terminates it.
C6_TrapOnlyByAbortOrDebugAssert ==
    [][/\ (~trapped /\ trapped') =>
             \/ Did("abort")
             \/ DEBUG /\ Did("assert") /\ op'.val = "false"
       /\ (~DEBUG /\ Did("assert")) => ~trapped']_vars

\* A Release build processed an assert whose expression would have been
\* false, after an earlier statement, and the process is alive.
C6_Witness ==
    /\ ~DEBUG
    /\ pc > 1
    /\ op.name = "assert"
    /\ op.expr.typed
    /\ ~Eval(op.expr, x).val
    /\ ~trapped

\* C7: static_assert(...) is a no-op in both configurations for every
\* argument list: it never evaluates its arguments, never fails the build,
\* never writes a diagnostic and never aborts, even when its condition is
\* false.
C7_StaticAssertIsNoOp ==
    [][Did("static_assert") =>
          /\ op'.val = "unevaluated"
          /\ UNCHANGED <<x, evals, fprintf_calls, derefs, trapped,
                         compile_error>>]_vars

\* A static_assert whose condition is false was processed in a Debug
\* build, and the build and the process go on.
C7_Witness ==
    /\ DEBUG
    /\ op.name = "static_assert"
    /\ op.expr.typed
    /\ ~Eval(op.expr, x).val
    /\ ~compile_error
    /\ ~trapped

\* C8: fflush(X) has no effect for any argument list X: the arguments are
\* discarded without being evaluated, and the program state is unchanged.
C8_FflushIsNoOp ==
    [][Did("fflush") =>
          /\ op'.val = "unevaluated"
          /\ UNCHANGED <<x, evals, fprintf_calls, derefs, trapped,
                         compile_error>>]_vars

\* fflush was processed with a side-effecting argument.
C8_Witness ==
    /\ op.name = "fflush"
    /\ op.expr.kind = "postinc_lt"
    /\ op.expr.typed
    /\ pc > 0

\* C9: the stderr destination is the null value, and every formatted-output
\* call made with it (the one on the Debug assert failure path) is made
\* with the null handle and dereferences no handle.
C9_StderrIsNullNotDereferenced ==
    /\ stderr = NULL
    /\ \A i \in DOMAIN fprintf_calls : fprintf_calls[i].f = NULL
    /\ derefs = {}

\* A Debug assert failed and made its formatted-output call.
C9_Witness ==
    /\ DEBUG
    /\ op.name = "assert"
    /\ op.wrote
    /\ Len(fprintf_calls) > 0
    /\ fprintf_calls[Len(fprintf_calls)].f = stderr

\* The copy, concatenate and transform declarations of string.h.
CopyConcatTransform ==
    {"memcpy", "strcpy", "strncpy", "strcat", "strncat", "strxfrm"}

\* C10: every copy, concatenate and transform declaration of the string
\* module carries the restrict marking on both its destination (first) and
\* its source (second) parameter, while memmove carries none.
C10_RestrictOnDestAndSrc ==
    /\ op.name \in CopyConcatTransform =>
          string_h[op.name][1] /\ string_h[op.name][2]
    /\ op.name = "memmove" =>
          \A i \in DOMAIN string_h[op.name] : ~string_h[op.name][i]

=============================================================================
